---- MODULE Spec2Model ----
(***************************************************************************)
(* Model of sentry_discovery/discovery.py: the request executor            *)
(* SentryDiscovery._make_request (rate limiting, status classification,    *)
(* retry loop), the traversers get_organizations / get_teams /             *)
(* get_projects and the orchestrator discover_all.                         *)
(*                                                                         *)
(* Time is counted in ticks of 50 ms, so that an elapsed time below the    *)
(* 100 ms minimum interval (0 or 1 tick) differs from one at or above it.  *)
(* The code uses time.time() and self.last_request_time only through their *)
(* difference, so the state keeps that difference, time_since_last, and    *)
(* stops counting once it has reached the minimum interval.                *)
(* An HTTP response is its status code, its headers and its body as the    *)
(* JSON value response.json() yields.                                      *)
(***************************************************************************)
EXTENDS Integers, Sequences, FiniteSets, TLC

\* ------------------------------------------------------------------ bounds
MaxRetry == 2          \* largest retry_attempts of an executor under a client
MaxRunRetry == 0       \* largest retry_attempts of a discover_all run
MaxCalls == 2          \* calls a client makes on one instance
MaxElapse == 2         \* ticks that may pass between two steps of the code
MaxLatency == 1        \* ticks a request may take
MaxTeams == 2          \* longest teams list the API returns
MaxProjects == 2       \* longest projects list the API returns

\* --------------------------------------------------------------- constants
TicksPerSecond == 20             \* 1 s in ticks of 50 ms
min_request_interval == 2        \* 0.1 s
DefaultRetryAfter == 60          \* headers.get("Retry-After", 60)
NoStatus == 0                    \* status_code = None
None == "<None>"

\* ------------------------------------------------------------- JSON values
\* A JSON value is tagged with its Python type, so that isinstance(data, list)
\* tells the empty list from the empty mapping.
JList(items) == [type |-> "list", items |-> items]
JDict(fields) == [type |-> "dict", fields |-> fields]
EmptyFields == [k \in {} |-> None]
EmptyMapping == JDict(EmptyFields)
IsList(v) == v.type = "list"

\* Merge with the left mapping winning on a key of both
MergeLeftWins(a, b) ==
  [k \in (DOMAIN a) \cup (DOMAIN b) |-> IF k \in DOMAIN a THEN a[k] ELSE b[k]]

\* {**a, **b}
Merge(a, b) ==
  [k \in (DOMAIN a) \cup (DOMAIN b) |-> IF k \in DOMAIN b THEN b[k] ELSE a[k]]

\* d.get(key, default)
Get(d, key, default) == IF key \in DOMAIN d THEN d[key] ELSE default

\* The lists of at most n distinct elements of S (a slug is unique within its
\* parent scope)
ListsUpTo(S, n) ==
  {l \in UNION {[1..m -> S] : m \in 0..n} :
     \A i, j \in 1..Len(l) : l[i] = l[j] => i = j}

\* ------------------------------------------------------------ API payloads
OrgA == [id |-> "1", slug |-> "a", name |-> "Org A"]
OrgB == [id |-> "2", slug |-> "b", name |-> "Org B"]
OrgLists == {<< >>, <<OrgA>>, <<OrgA, OrgB>>, <<OrgB, OrgA>>}

TeamOne == [id |-> "t1", slug |-> "t1", name |-> "Team One"]
TeamTwo == [id |-> "t2", slug |-> "t2", name |-> "Team Two",
            members |-> <<"raw-member">>]
TeamLists == ListsUpTo({TeamOne, TeamTwo}, MaxTeams)
MemberLists == {<< >>, <<"m1">>}

ProjOne == [id |-> "p1", slug |-> "p1", name |-> "Project One"]
ProjTwo == [id |-> "p2", slug |-> "p2", name |-> "Project Two",
            platform |-> "python", teams |-> <<"list-team">>]
ProjLists == ListsUpTo({ProjOne, ProjTwo}, MaxProjects)
ProjTeamLists == {<< >>, <<"t1">>}
DetailDicts == {[options |-> "detail-options", name |-> "Detail Name",
                 teams |-> <<"detail-team">>]}

\* A body that is a mapping where a list was expected
ErrorDict == JDict([detail |-> "unexpected"])

\* The endpoints of the API (section 6 of the URL scheme in the traversers)
OrgsUrl == [ep |-> "organizations"]
TeamsUrl(o) == [ep |-> "teams", org |-> o]
MembersUrlOfFirst(o, t) == [ep |-> "team_members", org |-> o, team |-> "t1"]
MembersUrl(o, t) == [ep |-> "team_members", org |-> o, team |-> t]
ProjectsUrl(o) == [ep |-> "projects", org |-> o]
ProjectTeamsUrl(o, p) == [ep |-> "project_teams", org |-> o, project |-> p]
ProjectDetailsUrl(o, p) == [ep |-> "project_details", org |-> o, project |-> p]

\* The bodies a 200 answer of an endpoint may carry
Bodies(u) ==
  CASE u.ep = "organizations" -> {JList(l) : l \in OrgLists} \cup {ErrorDict}
    [] u.ep = "teams" -> {JList(l) : l \in TeamLists} \cup {ErrorDict}
    [] u.ep = "team_members" -> {JList(l) : l \in MemberLists} \cup {ErrorDict}
    [] u.ep = "projects" -> {JList(l) : l \in ProjLists} \cup {ErrorDict}
    [] u.ep = "project_teams" -> {JList(l) : l \in ProjTeamLists} \cup {ErrorDict}
    [] OTHER -> {JDict(d) : d \in DetailDicts} \cup {EmptyMapping}

\* Retry-After header of a 429 answer: absent, a number of seconds, or a
\* value int() rejects (an HTTP date)
RetryAfterHeaders == {"absent", "2", "http-date"}
\* The status codes the API answers with
Statuses == {200, 201, 204, 302, 400, 401, 403, 404, 429, 500}
ResponseTexts == {"denied"}

\* ------------------------------------------------------------------- state
VARIABLES
  retry_attempts, target_org_slug, projects_only, teams_only,
  time_since_last,
  epc, url, params, attempt, calltrace, retval, error,
  pc, org, data, idx, item_teams, teams, projects, result, raised,
  progress, calls, session,
  cli_pc, exit_status, invoked

execVars == <<epc, url, params, attempt, calltrace, retval, error>>
timeVars == <<time_since_last>>
inputVars == <<retry_attempts, target_org_slug, projects_only, teams_only>>
frameVars == <<pc, org, data, idx, item_teams, teams, projects, result, raised,
               progress>>
cliVars == <<cli_pc, exit_status, invoked>>
vars == <<inputVars, timeVars, execVars, frameVars, calls, session, cliVars>>

NoError == [exc |-> "none"]
NoValue == [type |-> "none"]
NoSnapshot == [kind |-> "none"]
EmptySnapshot == [kind |-> "empty"]

\* SentryAPIError(message, status_code=None, response=None)
SentryAPIError(fmt, args, status_code, response) ==
  [exc |-> "SentryAPIError", fmt |-> fmt, args |-> args,
   status_code |-> status_code, response |-> response]


ValueError(fmt, args) == [exc |-> "ValueError", fmt |-> fmt, args |-> args]

\* ------------------------------------------------ _make_request (executor)
\* The for loop of _make_request is at its head when epc = "loop", with
\* attempt the loop variable; epc = "inflight" while session.get() runs.
\* calltrace lists what the current call did: its requests (each with the
\* rate-limit sleep before it, in ticks), the answers, the other sleeps (in
\* seconds).

\* url = urljoin(...); for attempt in range(self.retry_attempts + 1):
Call(u) ==
  /\ url' = u
  /\ params' = None
  /\ attempt' = 0
  /\ epc' = "loop"
  /\ calltrace' = << >>
  /\ retval' = NoValue
  /\ error' = NoError
  /\ calls' = Append(calls, u)

\* time.time() - self.last_request_time after t more ticks
Later(since, t) ==
  IF since + t >= min_request_interval THEN min_request_interval ELSE since + t

\* RateLimitWait without the sleep
RateLimitWaitNone(since) == 0

\* time.sleep(self.min_request_interval - time_since_last), when called
RateLimitWait(since) ==
  IF since < min_request_interval THEN min_request_interval - since ELSE 0

\* Backoff as 2 * attempt
BackoffLinear(a) == 2 * a

\* wait_time = 2**attempt, in seconds
Backoff(a) == 2 ^ a

\* int(response.headers.get("Retry-After", 60)); -1 stands for ValueError
RetryAfter(h) ==
  CASE h = "absent" -> DefaultRetryAfter
    [] h = "2" -> 2
    [] OTHER -> -1

\* Classify without the 404 branch
ClassifyNotFoundRaises(status) ==
  CASE status = 200 -> "json"
    [] status = 204 -> "empty"
    [] status = 429 -> "rate_limited"
    [] status \in {401, 403} -> "auth"
    [] OTHER -> "raise_for_status"

\* The if/elif chain on response.status_code, lines 118-137
Classify(status) ==
  CASE status = 200 -> "json"
    [] status = 204 -> "empty"
    [] status = 404 -> "empty"
    [] status = 429 -> "rate_limited"
    [] status \in {401, 403} -> "auth"
    [] OTHER -> "raise_for_status"

\* response.raise_for_status() raises HTTPError for 4xx and 5xx
\* RaisesForStatus raising for redirections too
RaisesForStatusFrom300(status) == 300 <= status /\ status < 600

RaisesForStatus(status) == 400 <= status /\ status < 600

\* AuthenticationError without the status code and the response text
AuthenticationErrorBare(status, text) ==
  SentryAPIError("Authentication failed: {} - {}",
                 [status |-> status, text |-> text], NoStatus, None)

\* Lines 131-135
AuthenticationError(status, text) ==
  SentryAPIError("Authentication failed: {} - {}",
                 [status |-> status, text |-> text], status, text)

\* Lines 137 and 159-160: the HTTPError of raise_for_status() is caught as a
\* RequestException and wrapped; str(e) names the status
HTTPErrorWrapped(status, text) ==
  SentryAPIError("Request failed: {}",
                 [cause |-> "HTTPError", status |-> status], NoStatus, None)

RequestEv(u, p, a, wait) ==
  [ev |-> "request", url |-> u, params |-> p, attempt |-> a,
   rate_wait |-> wait]
ResponseEv(status, text, body) ==
  [ev |-> "response", status |-> status, text |-> text, body |-> body]
FailureEv(what) == [ev |-> "failure", what |-> what]
SleepEv(why, seconds) == [ev |-> "sleep", why |-> why, seconds |-> seconds]

\* Lines 105-113: the rate-limit check, its sleep, and session.get()
BeginAttempt ==
  /\ epc = "loop"
  /\ attempt <= retry_attempts
  /\ \E d \in 0..MaxElapse :
       LET since == Later(time_since_last, d)
           wait == RateLimitWait(since)
       IN /\ time_since_last' = Later(since, wait)
          /\ calltrace' = Append(calltrace,
                                 RequestEv(url, params, attempt, wait))
  /\ epc' = "inflight"
  /\ UNCHANGED <<url, params, attempt, retval, error, calls>>
  /\ UNCHANGED <<inputVars, session, cliVars, frameVars>>

\* Line 115: self.last_request_time = time.time(), once a response is there
Received ==
  /\ epc = "inflight"
  /\ time_since_last' = 0

\* Lines 118-119: 200, return response.json()
Respond200 ==
  /\ Received
  /\ \E s \in Statuses, body \in Bodies(url) :
       /\ Classify(s) = "json"
       /\ retval' = body
       /\ calltrace' = Append(calltrace, ResponseEv(s, "json", body))
  /\ epc' = "returned"
  /\ UNCHANGED <<url, params, attempt, error, calls>>
  /\ UNCHANGED <<inputVars, session, cliVars, frameVars>>

\* Lines 120-124: 204 and 404, return {}
RespondEmpty ==
  /\ Received
  /\ \E s \in Statuses :
       /\ Classify(s) = "empty"
       /\ calltrace' = Append(calltrace, ResponseEv(s, "", NoValue))
  /\ retval' = EmptyMapping
  /\ epc' = "returned"
  /\ UNCHANGED <<url, params, attempt, error, calls>>
  /\ UNCHANGED <<inputVars, session, cliVars, frameVars>>

\* Lines 125-129: 429, sleep Retry-After seconds and continue the for loop
Respond429 ==
  \E s \in Statuses, h \in RetryAfterHeaders :
    LET retry_after == RetryAfter(h) IN
    /\ epc = "inflight"
    /\ Classify(s) = "rate_limited"
    /\ IF retry_after < 0
         THEN \* int() raises ValueError, which no except clause catches
              /\ time_since_last' = 0
              /\ calltrace' = Append(calltrace, ResponseEv(s, h, NoValue))
              /\ error' = ValueError("invalid literal for int()", [header |-> h])
              /\ epc' = "raised"
              /\ UNCHANGED attempt
         ELSE /\ time_since_last' = Later(0, retry_after * TicksPerSecond)
              /\ calltrace' = calltrace \o
                   <<ResponseEv(s, h, NoValue),
                     SleepEv("retry-after", retry_after)>>
              /\ attempt' = attempt + 1
              /\ epc' = "loop"
              /\ UNCHANGED error
    /\ UNCHANGED <<url, params, retval, calls>>
    /\ UNCHANGED <<inputVars, session, cliVars, frameVars>>

\* Lines 130-135: 401 and 403
RespondAuth ==
  /\ Received
  /\ \E s \in Statuses, text \in ResponseTexts :
       /\ Classify(s) = "auth"
       /\ calltrace' = Append(calltrace, ResponseEv(s, text, NoValue))
       /\ error' = AuthenticationError(s, text)
  /\ epc' = "raised"
  /\ UNCHANGED <<url, params, attempt, retval, calls>>
  /\ UNCHANGED <<inputVars, session, cliVars, frameVars>>

\* Lines 136-137 and 159-160: a status raise_for_status() rejects
RespondError ==
  /\ Received
  /\ \E s \in Statuses, text \in ResponseTexts :
       /\ Classify(s) = "raise_for_status"
       /\ RaisesForStatus(s)
       /\ calltrace' = Append(calltrace, ResponseEv(s, text, NoValue))
       /\ error' = HTTPErrorWrapped(s, text)
  /\ epc' = "raised"
  /\ UNCHANGED <<url, params, attempt, retval, calls>>
  /\ UNCHANGED <<inputVars, session, cliVars, frameVars>>

\* Lines 136-137: a status raise_for_status() accepts (1xx, 3xx, 2xx other
\* than 200 and 204); the try block ends and the for loop goes on
RespondPass ==
  /\ Received
  /\ \E s \in Statuses :
       /\ Classify(s) = "raise_for_status"
       /\ ~RaisesForStatus(s)
       /\ calltrace' = Append(calltrace, ResponseEv(s, "", NoValue))
  /\ attempt' = attempt + 1
  /\ epc' = "loop"
  /\ UNCHANGED <<url, params, retval, error, calls>>
  /\ UNCHANGED <<inputVars, session, cliVars, frameVars>>

\* Lines 139-157: session.get() raised Timeout or ConnectionError after lat
\* ticks; line 115 is not reached
Transient(what, fmt) ==
  /\ epc = "inflight"
  /\ \E lat \in 0..MaxLatency :
       IF attempt < retry_attempts
         THEN /\ time_since_last' =
                   Later(time_since_last, lat + Backoff(attempt) * TicksPerSecond)
              /\ calltrace' = calltrace \o
                   <<FailureEv(what), SleepEv("backoff", Backoff(attempt))>>
              /\ attempt' = attempt + 1
              /\ epc' = "loop"
              /\ UNCHANGED error
         ELSE /\ time_since_last' = Later(time_since_last, lat)
              /\ calltrace' = Append(calltrace, FailureEv(what))
              /\ error' = SentryAPIError(fmt, [retries |-> retry_attempts],
                                         NoStatus, None)
              /\ epc' = "raised"
              /\ UNCHANGED attempt
  /\ UNCHANGED <<url, params, retval, calls>>
  /\ UNCHANGED <<inputVars, session, cliVars, frameVars>>

Timeout == Transient("Timeout", "Request timeout after {} retries")

ConnectionError ==
  Transient("ConnectionError", "Connection error after {} retries")

\* Lines 159-160: any other RequestException raised by session.get()
RequestFails ==
  /\ epc = "inflight"
  /\ \E lat \in 0..MaxLatency : time_since_last' = Later(time_since_last, lat)
  /\ calltrace' = Append(calltrace, FailureEv("RequestException"))
  /\ error' = SentryAPIError("Request failed: {}",
                             [cause |-> "RequestException", status |-> NoStatus],
                             NoStatus, None)
  /\ epc' = "raised"
  /\ UNCHANGED <<url, params, attempt, retval, calls>>
  /\ UNCHANGED <<inputVars, session, cliVars, frameVars>>

\* Lines 162-164: the for loop ran out
\* LoopExhausted granting one more attempt instead of failing
LoopExtended ==
  /\ epc = "loop"
  /\ attempt > retry_attempts
  /\ attempt <= retry_attempts + 1
  /\ attempt' = attempt + 1
  /\ epc' = "inflight"
  /\ calltrace' = Append(calltrace, RequestEv(url, params, attempt, 0))
  /\ UNCHANGED <<url, params, retval, error, calls>>
  /\ UNCHANGED <<inputVars, session, cliVars, timeVars, frameVars>>

LoopExhausted ==
  /\ epc = "loop"
  /\ attempt > retry_attempts
  /\ error' = SentryAPIError("Failed to make request after {} attempts",
                             [attempts |-> retry_attempts + 1], NoStatus, None)
  /\ epc' = "raised"
  /\ UNCHANGED <<url, params, attempt, calltrace, retval, calls>>
  /\ UNCHANGED <<inputVars, session, cliVars, timeVars, frameVars>>

\* ------------------------------------------------------------- typed records
\* Python truthiness of an Optional[str]
Truthy(s) == s # None /\ s # ""

\* SentryOrganization(...) built at lines 177-184
SentryOrganization(org_data) ==
  [id |-> org_data["id"], slug |-> org_data["slug"], name |-> org_data["name"],
   features |-> Get(org_data, "features", << >>),
   status |-> Get(org_data, "status", EmptyFields),
   raw_data |-> org_data]

\* SentryTeam(...) built at lines 203-211
SentryTeam(team_data, org_slug, members) ==
  [id |-> team_data["id"], slug |-> team_data["slug"],
   name |-> team_data["name"], organization |-> org_slug,
   members |-> members, projects |-> Get(team_data, "projects", << >>),
   raw_data |-> team_data]

\* SentryProject with another default platform
SentryProjectUnknownPlatform(project_data, org_slug, pteams, details) ==
  [id |-> project_data["id"], slug |-> project_data["slug"],
   name |-> project_data["name"], organization |-> org_slug,
   platform |-> Get(project_data, "platform", "unknown"),
   teams |-> pteams,
   status |-> Get(project_data, "status", "unknown"),
   features |-> Get(project_data, "features", << >>),
   options |-> Get(details, "options", EmptyFields),
   raw_data |-> Merge(project_data, details)]

\* SentryProject(...) built at lines 245-256
SentryProject(project_data, org_slug, pteams, details) ==
  [id |-> project_data["id"], slug |-> project_data["slug"],
   name |-> project_data["name"], organization |-> org_slug,
   platform |-> Get(project_data, "platform", "other"),
   teams |-> pteams,
   status |-> Get(project_data, "status", "unknown"),
   features |-> Get(project_data, "features", << >>),
   options |-> Get(details, "options", EmptyFields),
   raw_data |-> Merge(project_data, details)]

\* _serialize_team
SerializeTeam(team) ==
  Merge([id |-> team.id, slug |-> team.slug, name |-> team.name,
         organization |-> team.organization, members |-> team.members,
         projects |-> team.projects],
        team.raw_data)

\* SerializeProject with the typed fields winning over the raw payload
SerializeProjectTypedWins(project) ==
  Merge(project.raw_data,
        [id |-> project.id, slug |-> project.slug, name |-> project.name,
         organization |-> project.organization,
         platform |-> project.platform, teams |-> project.teams,
         status |-> project.status, features |-> project.features,
         options |-> project.options])

\* _serialize_project
SerializeProject(project) ==
  Merge([id |-> project.id, slug |-> project.slug, name |-> project.name,
         organization |-> project.organization,
         platform |-> project.platform, teams |-> project.teams,
         status |-> project.status, features |-> project.features,
         options |-> project.options],
        project.raw_data)

\* [f(x) for x in xs]
Map(f(_), xs) == [i \in 1..Len(xs) |-> f(xs[i])]

\* ListOrEmpty yielding one placeholder item for a value that is not a list
ListOrPlaceholder(v) ==
  IF IsList(v) THEN v.items
  ELSE <<[id |-> "0", slug |-> "a", name |-> "placeholder"]>>

\* "if not isinstance(data, list): return []" of the list traversers
ListOrEmpty(v) == IF IsList(v) THEN v.items ELSE << >>

\* get_organizations, lines 171-188, on the value _make_request returned
Organizations(v) == Map(SentryOrganization, ListOrEmpty(v))

\* next((o for o in orgs if o.slug == target_org_slug), None), as an index
\* into orgs, 0 for None
FirstMatch(orgs, slug) ==
  LET hits == {i \in 1..Len(orgs) : orgs[i].slug = slug}
  IN IF hits = {} THEN 0 ELSE CHOOSE i \in hits : \A j \in hits : i <= j

\* ResolveOrg falling back to the first organization when none matches
ResolveOrgFallback(orgs, target) ==
  IF Truthy(target) /\ FirstMatch(orgs, target) # 0
    THEN FirstMatch(orgs, target) ELSE 1

\* Lines 302-307: the index of the organization used, 0 when next() yields
\* None; orgs[0] is index 1
ResolveOrg(orgs, target) ==
  IF Truthy(target) THEN FirstMatch(orgs, target) ELSE 1

\* NoOrganizations without the check
NoOrganizationsNever(orgs) == FALSE

\* NoOrganizations made only when no target slug is given
NoOrganizationsUntargeted(orgs) == orgs = << >> /\ ~Truthy(target_org_slug)

\* "if not orgs" at line 297
NoOrganizations(orgs) == orgs = << >>

\* Snapshot without its organization
SnapshotBare(o, ts, ps) == [kind |-> "snapshot", teams |-> ts, projects |-> ps]

Snapshot(o, ts, ps) ==
  [kind |-> "snapshot", organization |-> o, teams |-> ts, projects |-> ps]

\* -------------------------------------------------------------- discover_all
\* pc names the call discover_all is waiting in; the actions below run the
\* code between two calls of _make_request.

\* Finish without the last progress report
FinishSilent(res, prog) ==
  /\ pc' = "returned"
  /\ result' = res
  /\ progress' = prog
  /\ epc' = "idle"
  /\ UNCHANGED <<url, params, attempt, calltrace, retval, error, calls>>
  /\ UNCHANGED <<data, idx, item_teams>>

\* Lines 335-339: progress 100 and return result
Finish(res, prog) ==
  /\ pc' = "returned"
  /\ result' = res
  /\ progress' = Append(prog, 100)
  /\ epc' = "idle"
  /\ UNCHANGED <<url, params, attempt, calltrace, retval, error, calls>>
  /\ UNCHANGED <<data, idx, item_teams>>

\* SkipProjects without the flag
SkipProjectsNever == FALSE

\* "if not teams_only" at line 325
SkipProjects == teams_only

\* SkipTeams without the flag
SkipTeamsNever == FALSE

\* "if not projects_only" at line 316
SkipTeams == projects_only

\* Lines 324-339, entered with the result built so far
ProjectsPhase(res, prog) ==
  IF SkipProjects
    THEN Finish(res, prog)
    ELSE /\ Call(ProjectsUrl(org'.slug))
         /\ pc' = "get_projects"
         /\ result' = res
         /\ progress' = prog
         /\ UNCHANGED <<data, idx, item_teams>>

\* TeamsDone with the first team dropped from the output
TeamsDoneDropFirst(ts) ==
  /\ teams' = ts
  /\ UNCHANGED <<org, projects>>
  /\ ProjectsPhase([result EXCEPT
                      !.teams = IF ts = << >> THEN << >>
                                ELSE Tail(Map(SerializeTeam, ts))],
                   Append(progress, 60))

\* Lines 319-322 and on: get_teams returned ts
TeamsDone(ts) ==
  /\ teams' = ts
  /\ UNCHANGED <<org, projects>>
  /\ ProjectsPhase([result EXCEPT !.teams = Map(SerializeTeam, ts)],
                   Append(progress, 60))

\* ProjectsDone reporting no progress of its own
ProjectsDoneSilent(ps) ==
  /\ projects' = ps
  /\ UNCHANGED <<org, teams>>
  /\ Finish([result EXCEPT !.projects = Map(SerializeProject, ps)], progress)

\* Lines 328-339: get_projects returned ps
ProjectsDone(ps) ==
  /\ projects' = ps
  /\ UNCHANGED <<org, teams>>
  /\ Finish([result EXCEPT !.projects = Map(SerializeProject, ps)],
            Append(progress, 90))

\* Lines 290-296: progress 10, get_organizations() up to its request
DiscoverAll ==
  /\ pc = "init"
  /\ progress' = Append(progress, 10)
  /\ Call(OrgsUrl)
  /\ pc' = "get_organizations"
  /\ UNCHANGED <<org, data, idx, item_teams, teams, projects, result, raised>>
  /\ UNCHANGED <<inputVars, session, cliVars, timeVars>>

\* Lines 171-188 and 297-318: the organizations arrived
OrganizationsReturned ==
  /\ pc = "get_organizations"
  /\ epc = "returned"
  /\ LET orgs == Organizations(retval)
         k == ResolveOrg(orgs, target_org_slug)
     IN IF NoOrganizations(orgs)
          THEN \* return {}
               /\ pc' = "returned"
               /\ result' = EmptySnapshot
               /\ epc' = "idle"
               /\ UNCHANGED <<url, params, attempt, calltrace, retval, error, calls>>
               /\ UNCHANGED <<org, data, idx, item_teams, progress, raised>>
          ELSE IF k = 0
          THEN \* raise ValueError(f"Organization '{target_org_slug}' not found")
               /\ pc' = "raised"
               /\ raised' = ValueError("Organization '{}' not found",
                                       [slug |-> target_org_slug])
               /\ epc' = "idle"
               /\ UNCHANGED <<url, params, attempt, calltrace, retval, error, calls>>
               /\ UNCHANGED <<org, data, idx, item_teams, progress, result>>
          ELSE IF k > Len(orgs)
          THEN \* orgs[0] on an empty list
               /\ pc' = "raised"
               /\ raised' = [exc |-> "IndexError"]
               /\ epc' = "idle"
               /\ UNCHANGED <<url, params, attempt, calltrace, retval, error, calls>>
               /\ UNCHANGED <<org, data, idx, item_teams, progress, result>>
          ELSE /\ org' = orgs[k]
               /\ raised' = raised
               /\ IF SkipTeams
                    THEN ProjectsPhase(Snapshot(orgs[k].raw_data, << >>, << >>),
                                       Append(progress, 20))
                    ELSE /\ Call(TeamsUrl(orgs[k].slug))
                         /\ pc' = "get_teams"
                         /\ result' = Snapshot(orgs[k].raw_data, << >>, << >>)
                         /\ progress' = Append(progress, 20)
                         /\ UNCHANGED <<data, idx, item_teams>>
  /\ UNCHANGED <<teams, projects>>
  /\ UNCHANGED <<inputVars, session, cliVars, timeVars>>

\* Lines 194-201 of get_teams: the teams list arrived
TeamsListReturned ==
  /\ pc = "get_teams"
  /\ epc = "returned"
  /\ LET items == ListOrEmpty(retval) IN
     IF items = << >>
       THEN TeamsDone(<< >>) /\ raised' = raised
       ELSE /\ data' = items
            /\ idx' = 1
            /\ teams' = << >>
            /\ Call(MembersUrl(org.slug, items[1]["slug"]))
            /\ pc' = "get_team_members"
            /\ UNCHANGED <<org, item_teams, projects, result, raised, progress>>
  /\ UNCHANGED <<inputVars, session, cliVars, timeVars>>

\* Lines 221-227 and 203-215: the members of team idx arrived
TeamMembersReturned ==
  /\ pc = "get_team_members"
  /\ epc = "returned"
  /\ LET members == ListOrEmpty(retval)
         ts == Append(teams, SentryTeam(data[idx], org.slug, members))
     IN IF idx < Len(data)
          THEN /\ teams' = ts
               /\ idx' = idx + 1
               /\ Call(MembersUrl(org.slug, data[idx + 1]["slug"]))
               /\ UNCHANGED <<pc, org, data, item_teams, projects, result,
                              raised, progress>>
          ELSE TeamsDone(ts) /\ raised' = raised
  /\ UNCHANGED <<inputVars, session, cliVars, timeVars>>

\* Lines 233-240 of get_projects: the projects list arrived
ProjectsListReturned ==
  /\ pc = "get_projects"
  /\ epc = "returned"
  /\ LET items == ListOrEmpty(retval) IN
     IF items = << >>
       THEN ProjectsDone(<< >>) /\ raised' = raised
       ELSE /\ data' = items
            /\ idx' = 1
            /\ projects' = << >>
            /\ Call(ProjectTeamsUrl(org.slug, items[1]["slug"]))
            /\ pc' = "get_project_teams"
            /\ UNCHANGED <<org, item_teams, teams, result, raised, progress>>
  /\ UNCHANGED <<inputVars, session, cliVars, timeVars>>

\* Lines 268-274 and 243: the team assignments of project idx arrived
ProjectTeamsReturned ==
  /\ pc = "get_project_teams"
  /\ epc = "returned"
  /\ item_teams' = ListOrEmpty(retval)
  /\ Call(ProjectDetailsUrl(org.slug, data[idx]["slug"]))
  /\ pc' = "get_project_details"
  /\ UNCHANGED <<org, data, idx, teams, projects, result, raised, progress>>
  /\ UNCHANGED <<inputVars, session, cliVars, timeVars>>

\* Lines 280 and 245-260: the details of project idx arrived
ProjectDetailsReturned ==
  /\ pc = "get_project_details"
  /\ epc = "returned"
  /\ LET details == retval.fields
         ps == Append(projects,
                      SentryProject(data[idx], org.slug, item_teams, details))
     IN IF idx < Len(data)
          THEN /\ projects' = ps
               /\ idx' = idx + 1
               /\ Call(ProjectTeamsUrl(org.slug, data[idx + 1]["slug"]))
               /\ pc' = "get_project_teams"
               /\ UNCHANGED <<org, data, item_teams, teams, result, raised,
                              progress>>
          ELSE ProjectsDone(ps) /\ raised' = raised
  /\ UNCHANGED <<inputVars, session, cliVars, timeVars>>

Waiting ==
  {"get_organizations", "get_teams", "get_team_members", "get_projects",
   "get_project_teams", "get_project_details"}

\* Propagate with the exception swallowed: the result built so far is returned
PropagateReturns ==
  /\ pc \in Waiting
  /\ epc = "raised"
  /\ pc' = "returned"
  /\ raised' = raised
  /\ epc' = "idle"
  /\ UNCHANGED <<url, params, attempt, calltrace, retval, error, calls>>
  /\ UNCHANGED <<org, data, idx, item_teams, teams, projects, result, progress>>
  /\ UNCHANGED <<inputVars, session, cliVars, timeVars>>

\* No traverser and no line of discover_all catches an exception: what
\* _make_request raises leaves discover_all
Propagate ==
  /\ pc \in Waiting
  /\ epc = "raised"
  /\ pc' = "raised"
  /\ raised' = error
  /\ epc' = "idle"
  /\ UNCHANGED <<url, params, attempt, calltrace, retval, error, calls>>
  /\ UNCHANGED <<org, data, idx, item_teams, teams, projects, result, progress>>
  /\ UNCHANGED <<inputVars, session, cliVars, timeVars>>

\* __del__, lines 378-381: the finalizer closes the session; it runs when the
\* caller of discover_all has dropped the instance (main holds it until it
\* exits), if it runs at all
Del ==
  /\ pc \in {"returned", "raised"}
  /\ cli_pc \in {"library", "exited"}
  /\ session = "open"
  /\ session' = "closed"
  /\ UNCHANGED <<inputVars, timeVars, execVars, frameVars, calls, cliVars>>

\* ------------------------------------------------------------ main (cli.py)
\* cli_pc is where main stands: "discover" while discover_all runs (lines
\* 168-188), "summary" once the summary is shown, "exited" at the end;
\* exit_status holds the status the process ended with, invoked the calls main
\* made on the snapshot.
Exit(status) ==
  /\ cli_pc' = "exited"
  /\ exit_status' = <<status>>

\* IsEmptyMapping that never holds
IsEmptyMappingNever(res) == FALSE

\* "not data" at line 190, for what discover_all returned
IsEmptyMapping(res) == res = EmptySnapshot

\* Lines 190-192: discover_all returned the empty mapping
MainFailed ==
  /\ cli_pc = "discover"
  /\ pc = "returned"
  /\ IsEmptyMapping(result)
  /\ Exit(1)
  /\ UNCHANGED invoked
  /\ UNCHANGED <<inputVars, timeVars, execVars, frameVars, calls, session>>

\* Lines 224-228: discover_all raised an Exception
MainError ==
  /\ cli_pc = "discover"
  /\ pc = "raised"
  /\ Exit(1)
  /\ UNCHANGED invoked
  /\ UNCHANGED <<inputVars, timeVars, execVars, frameVars, calls, session>>

\* Lines 190-195: discover_all returned a snapshot, the summary is shown
MainSummary ==
  /\ cli_pc = "discover"
  /\ pc = "returned"
  /\ ~IsEmptyMapping(result)
  /\ invoked' = Append(invoked, "show_discovery_summary")
  /\ cli_pc' = "summary"
  /\ UNCHANGED exit_status
  /\ UNCHANGED <<inputVars, timeVars, execVars, frameVars, calls, session>>

\* Lines 198-228: the generator is run unless --validate is given; an
\* exception of the generator, and --validate without --terraform-dir, exit
\* with status 1
MainGenerate ==
  /\ cli_pc = "summary"
  /\ \E validate, dry_run, terraform_dir, generator_raises \in BOOLEAN :
       IF ~validate
         THEN /\ invoked' = Append(invoked,
                                   IF dry_run THEN "preview" ELSE "generate")
              /\ Exit(IF generator_raises THEN 1 ELSE 0)
         ELSE /\ invoked' = invoked
              /\ Exit(IF terraform_dir THEN 0 ELSE 1)
  /\ UNCHANGED <<inputVars, timeVars, execVars, frameVars, calls, session>>

\* discover_all is called by a program other than main
LibraryCaller ==
  /\ cli_pc = "library"
  /\ exit_status = << >>
  /\ invoked = << >>

\* main has called discover_all
MainStarted ==
  /\ cli_pc = "discover"
  /\ exit_status = << >>
  /\ invoked = << >>

\* ------------------------------------------------------------ specification
NoOrg == [slug |-> None]

\* SentryDiscovery.__init__, with the variables of a discover_all call
\* that has not started
Constructed ==
  /\ time_since_last = min_request_interval
  /\ epc = "idle"
  /\ url = OrgsUrl
  /\ params = None
  /\ attempt = 0
  /\ calltrace = << >>
  /\ retval = NoValue
  /\ error = NoError
  /\ org = NoOrg
  /\ data = << >>
  /\ idx = 0
  /\ item_teams = << >>
  /\ teams = << >>
  /\ projects = << >>
  /\ result = NoSnapshot
  /\ raised = NoError
  /\ progress = << >>
  /\ calls = << >>
  /\ session = "open"

\* One discover_all call on a fresh instance
Init ==
  /\ retry_attempts \in 0..MaxRunRetry
  /\ target_org_slug \in {None, "b", "c"}
  /\ projects_only \in BOOLEAN
  /\ teams_only \in BOOLEAN
  /\ pc = "init"
  /\ Constructed
  /\ LibraryCaller

Next ==
  \/ DiscoverAll
  \/ BeginAttempt
  \/ Respond200
  \/ RespondEmpty
  \/ Respond429
  \/ RespondAuth
  \/ RespondError
  \/ RespondPass
  \/ Timeout
  \/ ConnectionError
  \/ RequestFails
  \/ LoopExhausted
  \/ OrganizationsReturned
  \/ TeamsListReturned
  \/ TeamMembersReturned
  \/ ProjectsListReturned
  \/ ProjectTeamsReturned
  \/ ProjectDetailsReturned
  \/ Propagate
  \/ Del

Spec == Init /\ [][Next]_vars

\* ----------------------------------------------- discover_all under main
\* One run of main from its call of discover_all on (cli.py lines 168-228)
InitMain ==
  /\ retry_attempts \in 0..MaxRunRetry
  /\ target_org_slug \in {None, "b", "c"}
  /\ projects_only \in BOOLEAN
  /\ teams_only \in BOOLEAN
  /\ pc = "init"
  /\ Constructed
  /\ MainStarted

NextMain ==
  \/ Next
  \/ MainFailed
  \/ MainError
  \/ MainSummary
  \/ MainGenerate

SpecMain == InitMain /\ [][NextMain]_vars

\* --------------------------------------------- the executor under a client
\* The endpoints a client asks for through the traversers that only wrap
\* _make_request (get_organizations, get_project_details)
ClientUrls == {OrgsUrl, ProjectDetailsUrl("a", "p1")}

\* A client calls a traverser, which calls _make_request (lines 170, 280)
ClientCall ==
  /\ pc = "client"
  /\ epc \in {"idle", "returned", "raised"}
  /\ Len(calls) < MaxCalls
  /\ \E u \in ClientUrls : Call(u)
  /\ UNCHANGED <<inputVars, session, cliVars, timeVars, frameVars>>

InitExec ==
  /\ retry_attempts \in 0..MaxRetry
  /\ target_org_slug = None
  /\ projects_only = FALSE
  /\ teams_only = FALSE
  /\ pc = "client"
  /\ Constructed
  /\ cli_pc = "library"
  /\ exit_status = << >>
  /\ invoked = << >>

NextExec ==
  \/ ClientCall
  \/ BeginAttempt
  \/ Respond200
  \/ RespondEmpty
  \/ Respond429
  \/ RespondAuth
  \/ RespondError
  \/ RespondPass
  \/ Timeout
  \/ ConnectionError
  \/ RequestFails
  \/ LoopExhausted

SpecExec == InitExec /\ [][NextExec]_vars

\* Every step of the executor ends: session.get has a timeout and every
\* sleep is finite, so a step that can be taken is taken
SpecExecFair == SpecExec /\ WF_vars(NextExec)

\* ================================================================== claims
Last(tr) == tr[Len(tr)]
IsRequest(e) == e.ev = "request"
IsSleep(e) == e.ev = "sleep"
IsOutcome(e) == e.ev \in {"response", "failure"}
IsResponse(e, statuses) == e.ev = "response" /\ e.status \in statuses
NotRateLimited(e) == IsOutcome(e) /\ ~IsResponse(e, {429})
Requests == SelectSeq(calltrace, IsRequest)
Sleeps == SelectSeq(calltrace, IsSleep)
Outcomes == SelectSeq(calltrace, IsOutcome)
Requested(ep) == \E i \in 1..Len(calls) : calls[i].ep = ep
Terminated == pc \in {"returned", "raised"}

\* ---- C1
\* C1 (as claimed): a discover_all call with projects_only and teams_only both
\* set that returns a snapshot has requested the teams endpoint and the
\* projects endpoint, and the snapshot carries the serialized teams and
\* projects built from the answers.
C1_BothFlagsRunBothPhases ==
  (pc = "returned" /\ projects_only /\ teams_only /\ result.kind = "snapshot")
    => /\ Requested("teams")
       /\ Requested("projects")
       /\ result.teams = Map(SerializeTeam, teams)
       /\ result.projects = Map(SerializeProject, projects)

\* ---- C2
OrgFetchOnly == calls = <<OrgsUrl>> /\ calltrace # << >>
OrgFetchAuthFailed ==
  OrgFetchOnly /\ IsResponse(Last(calltrace), {401, 403})
OrgFetchEmptyList ==
  OrgFetchOnly /\ IsResponse(Last(calltrace), {200})
    /\ Last(calltrace).body = JList(<< >>)

\* C2 (as claimed): when the organization fetch yields no organizations, by
\* an empty list or by a 401/403 answer to the list-organizations request,
\* discover_all returns the empty snapshot and does not raise.
C2_NoOrganizationsReturnsEmpty ==
  (Terminated /\ (OrgFetchEmptyList \/ OrgFetchAuthFailed))
    => (pc = "returned" /\ result = EmptySnapshot)

\* C2 (amended): when the API answers the list-organizations request with an
\* empty list, discover_all returns the empty snapshot and does not raise;
\* when it answers 401 or 403, discover_all raises the authentication error.
C2_EmptyListReturnsEmptyAuthRaises ==
  /\ (Terminated /\ OrgFetchEmptyList)
       => (pc = "returned" /\ result = EmptySnapshot /\ raised.exc = "none")
  /\ (Terminated /\ OrgFetchAuthFailed)
       => (pc = "raised" /\ raised.exc = "SentryAPIError"
           /\ raised.status_code = Last(calltrace).status
           /\ result = NoSnapshot)

C2_Witness ==
  pc = "returned" /\ OrgFetchEmptyList /\ result = EmptySnapshot
    /\ target_org_slug = "b"

\* ---- C3
\* C3 (as claimed): a 429 answer consumes no retry slot: the loop index counts
\* only the attempts that ended otherwise, and a call answered by 429s alone
\* never runs out of attempts.
C3_RateLimitKeepsRetrySlot ==
  /\ epc \in {"loop", "inflight"}
       => attempt = Len(SelectSeq(calltrace, NotRateLimited))
  /\ ~ /\ epc = "raised"
       /\ error.exc = "SentryAPIError"
       /\ error.fmt = "Failed to make request after {} attempts"
       /\ \A i \in 1..Len(Outcomes) : IsResponse(Outcomes[i], {429})

\* ---- C4
\* C4 (as claimed): every 429 answer with an integer or absent Retry-After is
\* followed by one sleep of that many seconds (60 when absent) and then, once
\* the call has moved on, by the next request, to the same URL with the same
\* parameters.
C4_RateLimitWaitThenRetry ==
  \A i \in 1..Len(calltrace) :
    (IsResponse(calltrace[i], {429}) /\ RetryAfter(calltrace[i].text) >= 0)
      => /\ i < Len(calltrace)
         /\ IsSleep(calltrace[i + 1])
         /\ calltrace[i + 1].seconds =
              (IF calltrace[i].text = "absent" THEN 60 ELSE 2)
         /\ epc # "loop"
              => /\ i + 2 <= Len(calltrace)
                 /\ IsRequest(calltrace[i + 2])
                 /\ calltrace[i + 2].url = calltrace[i - 1].url
                 /\ calltrace[i + 2].params = calltrace[i - 1].params

\* ---- C5
AllFailedWith(what) ==
  /\ Outcomes # << >>
  /\ \A i \in 1..Len(Outcomes) :
       Outcomes[i].ev = "failure" /\ Outcomes[i].what = what

ExhaustedMessage(what) ==
  IF what = "Timeout" THEN "Request timeout after {} retries"
                      ELSE "Connection error after {} retries"

\* C5: in a call whose attempts so far all ended in a timeout (or all in a
\* connection failure), at most retry_attempts + 1 requests are issued, the
\* sleeps are 1, 2, 4, ... seconds, one after each failed attempt but the
\* last; the call fails exactly after retry_attempts + 1 failures, with no
\* sleep after the last one and an error naming retry_attempts; and an answer
\* that ends the call with a value is the last event of the call.
C5_TransientRetries ==
  /\ \A what \in {"Timeout", "ConnectionError"} :
       AllFailedWith(what) =>
         LET n == Len(Outcomes) IN
         /\ n <= retry_attempts + 1
         /\ Len(Requests) = (IF epc = "inflight" THEN n + 1 ELSE n)
         /\ Sleeps = [i \in 1..(IF n <= retry_attempts THEN n ELSE retry_attempts)
                        |-> SleepEv("backoff", 2 ^ (i - 1))]
         /\ (epc = "raised") <=> (n = retry_attempts + 1)
         /\ epc = "raised"
              => /\ Last(calltrace).ev = "failure"
                 /\ Len(Requests) = retry_attempts + 1
                 /\ error.exc = "SentryAPIError"
                 /\ error.fmt = ExhaustedMessage(what)
                 /\ error.args.retries = retry_attempts
  /\ \A i \in 1..Len(calltrace) :
       IsResponse(calltrace[i], {200, 204, 404})
         => (i = Len(calltrace) /\ epc = "returned")

C5_Witness ==
  /\ epc = "raised"
  /\ retry_attempts = 2
  /\ AllFailedWith("Timeout")
  /\ Len(Requests) = 3
  /\ Sleeps = <<SleepEv("backoff", 1), SleepEv("backoff", 2)>>

\* ---- C6
IsAuthenticationError(x, e) ==
  /\ x.exc = "SentryAPIError"
  /\ x.fmt = "Authentication failed: {} - {}"
  /\ x.args = [status |-> e.status, text |-> e.text]
  /\ x.status_code = e.status
  /\ x.response = e.text

C7_OtherStatusCarriesStatusAndBody ==
  \A i \in 1..Len(calltrace) :
    (/\ calltrace[i].ev = "response"
     /\ calltrace[i].status \notin 200..299
     /\ calltrace[i].status \notin {401, 403, 404, 429})
      => /\ i = Len(calltrace)
         /\ epc = "raised"
         /\ error.exc = "SentryAPIError"
         /\ error.status_code = calltrace[i].status
         /\ error.response = calltrace[i].text

\* ---- C8
\* C8: an answer with status 200, 204 or 404 is the last event of its call,
\* whatever the URL; the call returns without an error, with the body of the
\* answer for 200 and with the empty mapping for 204 and 404.
C8_SuccessEndsCall ==
  \A i \in 1..Len(calltrace) :
    IsResponse(calltrace[i], {200, 204, 404})
      => /\ i = Len(calltrace)
         /\ epc = "returned"
         /\ error.exc = "none"
         /\ calltrace[i].status = 200 => retval = calltrace[i].body
         /\ calltrace[i].status \in {204, 404} => retval = EmptyMapping

C8_Witness ==
  /\ epc = "returned"
  /\ url = ProjectDetailsUrl("a", "p1")
  /\ IsResponse(Last(calltrace), {404})
  /\ retval = EmptyMapping
  /\ attempt = 1

\* ---- C9
\* C9: whenever a request is in flight, at least the minimum interval has
\* passed since the recorded last request time, for every attempt of every
\* call on the instance; the sleep before a request is never longer than the
\* interval.
C9_MinimumInterval ==
  /\ epc = "inflight" => time_since_last >= min_request_interval
  /\ \A i \in 1..Len(calltrace) :
       IsRequest(calltrace[i])
         => calltrace[i].rate_wait \in 0..min_request_interval

C9_Witness ==
  /\ epc = "inflight"
  /\ Len(calls) = 2
  /\ calls[1] # calls[2]
  /\ attempt = 1
  /\ Last(calltrace).rate_wait = 1
  /\ time_since_last = min_request_interval

\* ---- C10
\* C10 (as claimed): when an attempt has just ended, in an answer or in a
\* timeout or connection failure, the recorded last request time is the time
\* the attempt ended.
C10_TimestampOnEveryAttempt ==
  (epc \in {"returned", "raised"} /\ calltrace # << >>
     /\ IsOutcome(Last(calltrace)))
    => time_since_last = 0

\* ---- C11
OrganizationNotFound ==
  ValueError("Organization '{}' not found", [slug |-> target_org_slug])

\* C11: when get_organizations has returned a non-empty list, discover_all
\* with a target slug uses the fetched organization whose slug is the target
\* and puts its raw payload in the snapshot; when no fetched organization has
\* that slug it raises the not-found error, makes no further call and has no
\* snapshot; with no target slug it uses the first fetched organization.
C11_OrganizationResolution ==
  /\ [][(/\ pc = "get_organizations"
         /\ epc = "returned"
         /\ pc' # pc
         /\ Organizations(retval) # << >>)
        => LET orgs == Organizations(retval)
               hits == {i \in 1..Len(orgs) : orgs[i].slug = target_org_slug}
           IN IF ~Truthy(target_org_slug)
                THEN /\ org' = orgs[1]
                     /\ result'.kind = "snapshot"
                     /\ result'.organization = orgs[1].raw_data
              ELSE IF hits = {}
                THEN /\ pc' = "raised"
                     /\ raised' = OrganizationNotFound
                     /\ calls' = calls
                     /\ epc' = "idle"
                     /\ result' = NoSnapshot
                ELSE /\ \E i \in hits : org' = orgs[i]
                     /\ org'.slug = target_org_slug
                     /\ result'.kind = "snapshot"
                     /\ result'.organization = org'.raw_data]_vars
  /\ [](raised = OrganizationNotFound
          => pc = "raised" /\ calls = <<OrgsUrl>> /\ result = NoSnapshot)

C11_Witness ==
  /\ pc = "raised"
  /\ raised = OrganizationNotFound
  /\ target_org_slug = "c"
  /\ calls = <<OrgsUrl>>
  /\ IsResponse(Last(calltrace), {200})
  /\ Last(calltrace).body = JList(<<OrgA, OrgB>>)

\* ---- C12
TeamEndpoints == {"teams", "team_members"}
ProjectEndpoints == {"projects", "project_teams", "project_details"}
NoneRequested(eps) == \A i \in 1..Len(calls) : calls[i].ep \notin eps

\* C12: with teams_only set and projects_only unset, discover_all never calls
\* a project endpoint, and once the organization is resolved it has called
\* the teams endpoint; the snapshot it returns has the serialized teams and
\* an empty projects list. With projects_only set and teams_only unset the
\* same holds with teams and projects exchanged.
C12_FlagSkipsOtherPhase ==
  /\ (teams_only /\ ~projects_only)
       => /\ NoneRequested(ProjectEndpoints)
          /\ org # NoOrg => Requested("teams")
          /\ (pc = "returned" /\ result.kind = "snapshot")
               => /\ result.projects = << >>
                  /\ result.teams = Map(SerializeTeam, teams)
  /\ (projects_only /\ ~teams_only)
       => /\ NoneRequested(TeamEndpoints)
          /\ org # NoOrg => Requested("projects")
          /\ (pc = "returned" /\ result.kind = "snapshot")
               => /\ result.teams = << >>
                  /\ result.projects = Map(SerializeProject, projects)

C12_Witness ==
  /\ teams_only
  /\ ~projects_only
  /\ pc = "returned"
  /\ result.kind = "snapshot"
  /\ Len(result.teams) = 2
  /\ result.projects = << >>
  /\ Last(calls).ep = "team_members"

\* ---- C13
Reported(v) == \E i \in 1..Len(progress) : progress[i] = v
TeamsPhase == {"get_teams", "get_team_members"}
ProjectsPhasePcs == {"get_projects", "get_project_teams", "get_project_details"}

\* C13: the values reported to the progress callback never decrease and never
\* exceed 100; a run with both flags unset that returns a snapshot has
\* reported exactly 10, 20, 60, 90, 100; 20 is reported only once the
\* organization is resolved, 60 only when no request of the teams phase is
\* left, and 90 only when no request of the projects phase is left.
C13_ProgressSequence ==
  /\ \A i, j \in 1..Len(progress) : i <= j => progress[i] <= progress[j]
  /\ \A i \in 1..Len(progress) : progress[i] <= 100
  /\ (pc = "returned" /\ ~projects_only /\ ~teams_only
        /\ result.kind = "snapshot")
       => progress = <<10, 20, 60, 90, 100>>
  /\ Reported(20) => org # NoOrg /\ pc # "get_organizations"
  /\ Reported(60) => /\ pc \notin TeamsPhase
                     /\ Requested("teams")
                     /\ result.teams = Map(SerializeTeam, teams)
  /\ Reported(90) => /\ pc = "returned"
                     /\ Requested("projects")
                     /\ result.projects = Map(SerializeProject, projects)

C13_Witness ==
  /\ pc = "returned"
  /\ ~projects_only
  /\ ~teams_only
  /\ progress = <<10, 20, 60, 90, 100>>
  /\ Len(result.teams) = 2
  /\ Len(result.projects) = 2

\* ---- C14
\* C14 (as claimed): a returned snapshot that is not the empty mapping never
\* has both its teams list and its projects list empty.
C14_NeverBothEmpty ==
  (pc = "returned" /\ result.kind = "snapshot")
    => ~(result.teams = << >> /\ result.projects = << >>)

\* C14 (amended): in a snapshot returned by a run with at most one flag set,
\* the teams list is empty exactly when projects_only is set or the teams
\* listing yielded no team (no members fetch was made), and the projects list
\* is empty exactly when teams_only is set or the projects listing yielded no
\* project (no project teams fetch was made); a run that found no
\* organization returns the empty mapping.
C14_EmptyOnlyWhenSkippedOrNothingFound ==
  /\ (pc = "returned" /\ result.kind = "snapshot"
        /\ ~(projects_only /\ teams_only))
       => /\ result.teams = << >>
               <=> (projects_only \/ ~Requested("team_members"))
          /\ result.projects = << >>
               <=> (teams_only \/ ~Requested("project_teams"))
          /\ Len(result.teams) = Len(teams)
          /\ Len(result.projects) = Len(projects)
  /\ (pc = "returned" /\ result.kind # "snapshot")
       => result = EmptySnapshot /\ calls = <<OrgsUrl>>

C14_Witness ==
  /\ pc = "returned"
  /\ ~projects_only
  /\ ~teams_only
  /\ result.kind = "snapshot"
  /\ result.teams = << >>
  /\ result.projects = << >>
  /\ calls = <<OrgsUrl, TeamsUrl("a"), ProjectsUrl("a")>>

\* ---- C15
IsSequence(v) == DOMAIN v = 1..Len(v)

\* C15: what discover_all returns is either the empty mapping or a mapping
\* with exactly the keys organization, teams and projects (and the tag of the
\* model), where organization is the raw payload of the resolved organization
\* and teams and projects are lists.
C15_SnapshotShape ==
  pc = "returned"
    => \/ result = EmptySnapshot
       \/ /\ DOMAIN result = {"kind", "organization", "teams", "projects"}
          /\ result.kind = "snapshot"
          /\ org # NoOrg
          /\ result.organization = org.raw_data
          /\ IsSequence(result.teams)
          /\ IsSequence(result.projects)

C15_Witness ==
  /\ pc = "returned"
  /\ target_org_slug = "b"
  /\ result.kind = "snapshot"
  /\ result.organization = OrgB
  /\ Len(result.teams) = 1
  /\ Len(result.projects) = 1

\* ---- C16
HardFailure(x) == x.exc \in {"SentryAPIError", "ValueError"}

\* C16: when a call of the teams phase (the teams list or a members fetch)
\* has raised, the next step of discover_all raises that same error without
\* another call; a run that ended so has called no project endpoint, has
\* returned nothing, and reported neither 60 nor 100.
C16_TeamsPhaseFailureAborts ==
  /\ [][(pc \in TeamsPhase /\ epc = "raised")
          => /\ HardFailure(error)
             /\ pc' = "raised"
             /\ raised' = error
             /\ calls' = calls
             /\ result' = result
             /\ progress' = progress]_vars
  /\ []((pc = "raised" /\ calls # << >> /\ Last(calls).ep \in TeamEndpoints)
          => /\ raised = error
             /\ HardFailure(raised)
             /\ NoneRequested(ProjectEndpoints)
             /\ progress = <<10, 20>>)

C16_Witness ==
  /\ pc = "raised"
  /\ Len(calls) = 4
  /\ Last(calls).ep = "team_members"
  /\ Len(teams) = 1
  /\ raised.exc = "SentryAPIError"
  /\ ~projects_only
  /\ ~teams_only

\* ---- C17
\* C17 (as claimed): when discover_all has returned or raised, the session of
\* the instance is closed.
C17_SessionClosedOnExit ==
  pc \in {"returned", "raised"} => session = "closed"

\* ---- C18
TeamFields == {"id", "slug", "name", "organization", "members", "projects"}
ProjectFields ==
  {"id", "slug", "name", "organization", "platform", "teams", "status",
   "features", "options"}

\* serialized is the mapping made of the typed fields of resource overlaid
\* with its raw payload
RawWins(serialized, resource, fields) ==
  /\ DOMAIN serialized = fields \cup DOMAIN resource.raw_data
  /\ \A k \in DOMAIN resource.raw_data : serialized[k] = resource.raw_data[k]
  /\ \A k \in fields \ DOMAIN resource.raw_data : serialized[k] = resource[k]

\* C18: in a returned snapshot, the mapping of every team and of every
\* project has every key of the resource's raw payload with the raw value,
\* and every typed field the raw payload lacks with the typed value; a key of
\* both has the raw value.
C18_RawFieldsWin ==
  (pc = "returned" /\ result.kind = "snapshot")
    => /\ ~projects_only
            => /\ Len(result.teams) = Len(teams)
               /\ \A i \in 1..Len(teams) :
                    RawWins(result.teams[i], teams[i], TeamFields)
       /\ ~teams_only
            => /\ Len(result.projects) = Len(projects)
               /\ \A i \in 1..Len(projects) :
                    RawWins(result.projects[i], projects[i], ProjectFields)

C18_Witness ==
  /\ pc = "returned"
  /\ result.kind = "snapshot"
  /\ \E i \in 1..Len(teams) :
       /\ "members" \in DOMAIN teams[i].raw_data
       /\ teams[i].members = <<"m1">>
       /\ result.teams[i].members = <<"raw-member">>
       /\ result.teams[i].organization = org.slug
  /\ \E i \in 1..Len(projects) :
       /\ projects[i].teams = <<"t1">>
       /\ result.projects[i].teams = <<"detail-team">>
       /\ result.projects[i].name = "Detail Name"
       /\ result.projects[i].status = "unknown"

\* ---- C19
IsTeamCall(c) == c.ep \in TeamEndpoints
TeamCalls == SelectSeq(calls, IsTeamCall)
Contiguous(Test(_)) ==
  \A i, j, k \in 1..Len(calls) :
    (i < j /\ j < k /\ Test(calls[i]) /\ Test(calls[k])) => Test(calls[j])

\* C19: the calls of get_teams are one teams list call followed, for the
\* teams of the list answer in list order, by one members call for the slug
\* of each team, with no other call in between; a members call is made only
\* when the one before it has returned; the Team record built after a members
\* call has the slug that call asked for and the members it returned; when
\* get_teams has returned, N teams have cost N + 1 calls.
C19_TeamsTraversal ==
  /\ [][(pc = "get_teams" /\ epc = "returned" /\ ListOrEmpty(retval) # << >>)
          => /\ data' = ListOrEmpty(retval)
             /\ pc' = "get_team_members"
             /\ teams' = << >>]_vars
  /\ [][(pc = "get_team_members" /\ epc = "returned")
          => /\ teams' = Append(teams, Last(teams'))
             /\ Last(teams').slug = url.team
             /\ Last(teams').members = ListOrEmpty(retval)
             /\ Last(teams').raw_data = data[Len(teams')]
             /\ pc' # pc <=> Len(teams') = Len(data)]_vars
  /\ [](/\ Contiguous(IsTeamCall)
        /\ TeamCalls # << >>
             => TeamCalls[1] = [ep |-> "teams", org |-> org.slug]
        /\ pc = "get_teams" => Len(TeamCalls) = 1
        /\ pc = "get_team_members"
             => /\ Len(TeamCalls) = 1 + idx
                /\ Len(teams) = idx - 1
                /\ \A j \in 1..idx :
                     TeamCalls[1 + j] = [ep |-> "team_members",
                                         org |-> org.slug,
                                         team |-> data[j]["slug"]]
        /\ (Reported(60) /\ ~projects_only)
             => /\ Len(TeamCalls) = Len(teams) + 1
                /\ \A j \in 1..Len(teams) :
                     TeamCalls[1 + j] = [ep |-> "team_members",
                                         org |-> org.slug,
                                         team |-> teams[j].slug])

C19_Witness ==
  /\ Reported(60)
  /\ Len(teams) = 2
  /\ teams[1].slug = "t2"
  /\ teams[1].members = << >>
  /\ teams[2].slug = "t1"
  /\ teams[2].members = <<"m1">>
  /\ TeamCalls = <<TeamsUrl("a"), MembersUrl("a", "t2"), MembersUrl("a", "t1")>>

\* ---- C20
IsProjectCall(c) == c.ep \in ProjectEndpoints
ProjectCalls == SelectSeq(calls, IsProjectCall)
ProjectTeamsCall(slug) ==
  [ep |-> "project_teams", org |-> org.slug, project |-> slug]
ProjectDetailsCall(slug) ==
  [ep |-> "project_details", org |-> org.slug, project |-> slug]

\* C20: the calls of get_projects are one projects list call followed, for
\* the projects of the list answer in list order, by the team assignments
\* call and then the details call for the slug of each project, with no
\* other call in between, each made only when the one before has returned;
\* the Project record built after a details call has the slug asked for, the
\* team assignments returned for it, the options entry of the details answer
\* or the empty mapping when the answer has none, and the platform of the
\* list payload or "other" when it has none; when get_projects has
\* returned, N projects have cost 2N + 1 calls.
C20_ProjectsTraversal ==
  /\ [][(pc = "get_projects" /\ epc = "returned"
           /\ ListOrEmpty(retval) # << >>)
          => /\ data' = ListOrEmpty(retval)
             /\ pc' = "get_project_teams"
             /\ projects' = << >>]_vars
  /\ [][(pc = "get_project_teams" /\ epc = "returned")
          => /\ item_teams' = ListOrEmpty(retval)
             /\ pc' = "get_project_details"
             /\ url'.project = url.project
             /\ projects' = projects]_vars
  /\ [][(pc = "get_project_details" /\ epc = "returned")
          => /\ projects' = Append(projects, Last(projects'))
             /\ Last(projects').slug = url.project
             /\ Last(projects').teams = item_teams
             /\ Last(projects').options =
                  (IF "options" \in DOMAIN retval.fields
                     THEN retval.fields["options"] ELSE EmptyFields)
             /\ Last(projects').platform =
                  (IF "platform" \in DOMAIN data[idx]
                     THEN data[idx]["platform"] ELSE "other")
             /\ pc' = "returned" <=> Len(projects') = Len(data)
             /\ pc' = "get_project_teams" <=> Len(projects') < Len(data)]_vars
  /\ [](/\ Contiguous(IsProjectCall)
        /\ ProjectCalls # << >>
             => ProjectCalls[1] = [ep |-> "projects", org |-> org.slug]
        /\ pc = "get_projects" => Len(ProjectCalls) = 1
        /\ pc = "get_project_teams"
             => /\ Len(ProjectCalls) = 2 * idx
                /\ Len(projects) = idx - 1
        /\ pc = "get_project_details"
             => /\ Len(ProjectCalls) = 2 * idx + 1
                /\ Len(projects) = idx - 1
        /\ pc \in {"get_project_teams", "get_project_details"}
             => \A j \in 1..idx :
                  /\ ProjectCalls[2 * j] = ProjectTeamsCall(data[j]["slug"])
                  /\ 2 * j + 1 <= Len(ProjectCalls)
                       => ProjectCalls[2 * j + 1]
                            = ProjectDetailsCall(data[j]["slug"])
        /\ (Reported(90) /\ ~teams_only)
             => /\ Len(ProjectCalls) = 2 * Len(projects) + 1
                /\ \A j \in 1..Len(projects) :
                     /\ ProjectCalls[2 * j]
                          = ProjectTeamsCall(projects[j].slug)
                     /\ ProjectCalls[2 * j + 1]
                          = ProjectDetailsCall(projects[j].slug))

C20_Witness ==
  /\ Reported(90)
  /\ Len(projects) = 2
  /\ projects[1].slug = "p2"
  /\ projects[1].platform = "python"
  /\ "options" \notin DOMAIN projects[1].raw_data
  /\ projects[1].teams = <<"t1">>
  /\ projects[2].slug = "p1"
  /\ projects[2].platform = "other"
  /\ "options" \in DOMAIN projects[2].raw_data
  /\ projects[2].teams = << >>
  /\ Len(ProjectCalls) = 5

\* ---- C21
SoftFailed == epc = "returned" /\ ~IsList(retval)

\* C21: when a list endpoint has answered with a value that is not a list
\* (the empty mapping of a 404 or 204 included), the fetch yields the empty
\* list and nothing is raised: no organizations give the empty snapshot, no
\* teams give an empty teams list and the run goes on to the projects phase,
\* a team whose members fetch failed so is recorded with empty members and
\* the next team is fetched, no projects give an empty projects list, and a
\* project whose team assignments failed so goes on to its details fetch
\* with empty assignments.
C21_NonListIsEmptyList ==
  /\ [][(pc = "get_organizations" /\ SoftFailed)
          => /\ pc' = "returned"
             /\ result' = EmptySnapshot
             /\ raised' = NoError]_vars
  /\ [][(pc = "get_teams" /\ SoftFailed)
          => /\ teams' = << >>
             /\ result'.teams = << >>
             /\ raised' = NoError
             /\ pc' = (IF teams_only THEN "returned" ELSE "get_projects")]_vars
  /\ [][(pc = "get_team_members" /\ SoftFailed)
          => /\ teams' = Append(teams, Last(teams'))
             /\ Last(teams').slug = url.team
             /\ Last(teams').members = << >>
             /\ raised' = NoError
             /\ idx < Len(data)
                  => /\ pc' = "get_team_members"
                     /\ url'.team = data[idx + 1]["slug"]
             /\ idx = Len(data)
                  => /\ pc' = (IF teams_only THEN "returned" ELSE "get_projects")
                     /\ Len(result'.teams) = Len(data)]_vars
  /\ [][(pc = "get_projects" /\ SoftFailed)
          => /\ projects' = << >>
             /\ result'.projects = << >>
             /\ raised' = NoError
             /\ pc' = "returned"]_vars
  /\ [][(pc = "get_project_teams" /\ SoftFailed)
          => /\ item_teams' = << >>
             /\ raised' = NoError
             /\ pc' = "get_project_details"
             /\ url'.project = url.project]_vars

C21_Witness ==
  /\ pc = "returned"
  /\ teams_only
  /\ ~projects_only
  /\ Last(calls) = MembersUrl(org.slug, "t1")
  /\ IsResponse(Last(calltrace), {404})
  /\ retval = EmptyMapping
  /\ Len(teams) = 2
  /\ teams[2].slug = "t1"
  /\ teams[2].members = << >>
  /\ Len(result.teams) = 2

\* ---- C22
\* The list a list call returned, while discover_all is in the loop over it
\* or at the step that receives it
Answered(listpc) == IF pc = listpc THEN ListOrEmpty(retval) ELSE data
SameIdentity(entry, item) ==
  entry["id"] = item["id"] /\ entry["slug"] = item["slug"]

ExhaustedError ==
  SentryAPIError("Failed to make request after {} attempts",
                 [attempts |-> retry_attempts + 1], NoStatus, None)
Running == epc \in {"loop", "inflight"}
Ended == epc \in {"returned", "raised"}

\* C23: a call of _make_request never issues more than retry_attempts + 1
\* requests, the i-th of them being attempt i - 1; a call that has made
\* retry_attempts + 1 attempts without returning or raising raises 'Failed to
\* make request after retry_attempts + 1 attempts', and this error is raised
\* in no other case; every call that has started ends, whatever the mix of
\* answers, timeouts and connection failures.
C23_BoundedAttempts ==
  /\ [](/\ Len(Requests) <= retry_attempts + 1
        /\ \A i \in 1..Len(Requests) : Requests[i].attempt = i - 1
        /\ attempt <= retry_attempts + 1
        /\ (epc = "raised" /\ error.exc = "SentryAPIError"
              /\ error.fmt = "Failed to make request after {} attempts")
             => /\ error = ExhaustedError
                /\ Len(Requests) = retry_attempts + 1
                /\ Len(Outcomes) = retry_attempts + 1
                /\ ~IsRequest(Last(calltrace)))
  /\ [][(epc = "loop" /\ attempt = retry_attempts + 1)
          => (epc' = "raised" /\ error' = ExhaustedError
                /\ calltrace' = calltrace)]_vars
  /\ (Running ~> Ended)

C23_Witness ==
  /\ epc = "raised"
  /\ error = ExhaustedError
  /\ retry_attempts = 2
  /\ Len(Requests) = 3
  /\ IsResponse(Outcomes[1], {429})
  /\ Outcomes[2] = FailureEv("Timeout")
  /\ IsResponse(Outcomes[3], {201, 302})

\* ---- C24
PassStatuses == {s \in Statuses : s \in 200..399 /\ s \notin {200, 204}}

\* C24: an answer with a 2xx status other than 200 and 204, or with a 3xx
\* status, neither ends the call with a value nor raises at once: when the
\* attempts are not used up the next event of the call is the same request
\* with the next attempt number, after no sleep but the rate-limit wait;
\* when they are used up the call raises the 'Failed to make request' error,
\* so a call answered so on every attempt raises it after
\* retry_attempts + 1 requests.
C24_OtherSuccessAndRedirectRetried ==
  /\ \A i \in 1..Len(calltrace) :
       IsResponse(calltrace[i], PassStatuses)
         => /\ IsRequest(calltrace[i - 1])
            /\ i < Len(calltrace)
                 => /\ IsRequest(calltrace[i + 1])
                    /\ calltrace[i + 1].attempt = calltrace[i - 1].attempt + 1
                    /\ calltrace[i + 1].url = calltrace[i - 1].url
                    /\ calltrace[i + 1].params = calltrace[i - 1].params
                    /\ calltrace[i + 1].rate_wait \in 0..min_request_interval
            /\ i = Len(calltrace)
                 => /\ epc \in {"loop", "raised"}
                    /\ retval = NoValue
                    /\ attempt = calltrace[i - 1].attempt + 1
                    /\ epc = "raised"
                         => /\ error = ExhaustedError
                            /\ attempt = retry_attempts + 1
  /\ (Ended /\ \A i \in 1..Len(Outcomes) :
                 IsResponse(Outcomes[i], PassStatuses))
       => /\ epc = "raised"
          /\ error = ExhaustedError
          /\ Len(Requests) = retry_attempts + 1
          /\ Sleeps = << >>

C24_Witness ==
  /\ epc = "raised"
  /\ error = ExhaustedError
  /\ retry_attempts = 2
  /\ Len(Requests) = 3
  /\ Sleeps = << >>
  /\ Outcomes[1].status = 302
  /\ Outcomes[2].status = 201
  /\ Outcomes[3].status = 302
  /\ Requests[2].rate_wait = min_request_interval

\* ---- C25
OrgFetchAnswered == OrgFetchOnly /\ IsResponse(Last(calltrace), {200})
FetchedOrganizations == Organizations(Last(calltrace).body)

\* C25: a run with a target slug whose organization fetch yielded no
\* organization returns the empty snapshot and does not raise; the not-found
\* error is raised only when the fetched list has organizations and none of
\* them has the target slug.
C25_EmptyCheckBeforeLookup ==
  /\ (Terminated /\ Truthy(target_org_slug) /\ OrgFetchAnswered
        /\ FetchedOrganizations = << >>)
       => /\ pc = "returned"
          /\ result = EmptySnapshot
          /\ raised = NoError
  /\ raised = OrganizationNotFound
       => /\ OrgFetchAnswered
          /\ FetchedOrganizations # << >>
          /\ \A i \in 1..Len(FetchedOrganizations) :
               FetchedOrganizations[i].slug # target_org_slug
          /\ Truthy(target_org_slug)

C25_Witness ==
  /\ pc = "returned"
  /\ target_org_slug = "c"
  /\ OrgFetchAnswered
  /\ Last(calltrace).body = JList(<< >>)
  /\ result = EmptySnapshot
  /\ raised = NoError

\* ---- C26
Checkpoints == <<10, 20, 60, 90, 100>>
TeamsPhaseCompleted ==
  /\ Requested("teams")
  /\ pc \notin TeamsPhase
  /\ ~(pc = "raised" /\ Last(calls).ep \in TeamEndpoints)
ProjectsPhaseCompleted ==
  /\ Requested("projects")
  /\ pc \notin ProjectsPhasePcs
  /\ ~(pc = "raised" /\ Last(calls).ep \in ProjectEndpoints)

\* C26: the reported progress values are checkpoints of 10, 20, 60, 90, 100
\* in that order with none repeated; 100 is reported exactly when the run
\* has returned a snapshot that is not the empty mapping; a run that returned
\* the empty mapping or raised the not-found error has reported only 10; 60
\* is reported exactly when the teams phase has run to its end and 90
\* exactly when the projects phase has run to its end.
C26_ProgressCheckpoints ==
  /\ \A i \in 1..Len(progress) :
       \E k \in 1..Len(Checkpoints) : progress[i] = Checkpoints[k]
  /\ \A i, j \in 1..Len(progress) : i < j => progress[i] < progress[j]
  /\ Reported(100) <=> (pc = "returned" /\ result.kind = "snapshot")
  /\ ((pc = "returned" /\ result = EmptySnapshot)
        \/ raised = OrganizationNotFound)
       => progress = <<10>>
  /\ Reported(60) <=> TeamsPhaseCompleted
  /\ Reported(90) <=> ProjectsPhaseCompleted

C26_Witness ==
  /\ pc = "raised"
  /\ ~projects_only
  /\ ~teams_only
  /\ Last(calls).ep = "project_details"
  /\ Len(projects) = 1
  /\ progress = <<10, 20, 60>>

\* ---- C27
OverridableFields ==
  {"teams", "options", "platform", "status", "features", "organization"}

\* C27: the raw payload of a project built after its details call has, for
\* every key of the details answer, the value of the details answer, and for
\* every other key of the list payload the value of the list payload; in a
\* returned snapshot a teams, options, platform, status, features or
\* organization key of that raw payload gives the value of the serialized
\* project, and the typed value (for teams: the assignments fetched from the
\* project teams endpoint) is in the output only when the raw payload has no
\* such key.
C27_ProjectKeyPrecedence ==
  /\ [][(pc = "get_project_details" /\ epc = "returned")
          => LET raw == Last(projects').raw_data
                 listed == data[idx]
                 detail == retval.fields
             IN /\ DOMAIN raw = DOMAIN listed \cup DOMAIN detail
                /\ \A k \in DOMAIN detail : raw[k] = detail[k]
                /\ \A k \in DOMAIN listed \ DOMAIN detail : raw[k] = listed[k]
                /\ Last(projects').teams = item_teams]_vars
  /\ []((pc = "returned" /\ result.kind = "snapshot" /\ ~teams_only)
          => \A i \in 1..Len(projects) :
               \A k \in OverridableFields :
                 IF k \in DOMAIN projects[i].raw_data
                   THEN result.projects[i][k] = projects[i].raw_data[k]
                   ELSE result.projects[i][k] = projects[i][k])

C27_Witness ==
  /\ pc = "returned"
  /\ result.kind = "snapshot"
  /\ data = <<ProjTwo, ProjOne>>
  /\ Len(projects) = 2
  /\ projects[1].teams = <<"t1">>
  /\ "options" \notin DOMAIN projects[1].raw_data
  /\ result.projects[1]["teams"] = <<"list-team">>
  /\ result.projects[1]["platform"] = "python"
  /\ projects[2].teams = <<"t1">>
  /\ "teams" \notin DOMAIN projects[2].raw_data
  /\ result.projects[2]["teams"] = <<"t1">>
  /\ result.projects[2]["platform"] = "other"

\* ---- C28
GeneratorCalls == {"preview", "generate"}
GeneratorInvoked ==
  \E i \in 1..Len(invoked) : invoked[i] \in GeneratorCalls

\* C28: when discover_all has returned the empty mapping or raised, main
\* makes no call on the snapshot, neither the summary nor the generator, and
\* its next step is to exit with status 1; the summary and the generator are
\* called only after discover_all returned a snapshot that is not the empty
\* mapping, the generator after the summary.
C28_EmptySnapshotIsFailure ==
  /\ []((pc = "raised" \/ (pc = "returned" /\ result = EmptySnapshot))
          => /\ invoked = << >>
             /\ cli_pc \in {"discover", "exited"}
             /\ cli_pc = "exited" => exit_status = <<1>>)
  /\ [](invoked # << >>
          => /\ pc = "returned"
             /\ result.kind = "snapshot"
             /\ invoked[1] = "show_discovery_summary")
  /\ [](GeneratorInvoked => Len(invoked) = 2 /\ cli_pc = "exited")
  /\ [][(cli_pc = "discover" /\ cli_pc' # cli_pc
           /\ (pc = "raised" \/ result = EmptySnapshot))
          => /\ cli_pc' = "exited"
             /\ exit_status' = <<1>>
             /\ invoked' = << >>]_vars

C28_Witness ==
  /\ pc = "returned"
  /\ result = EmptySnapshot
  /\ cli_pc = "exited"
  /\ exit_status = <<1>>
  /\ invoked = << >>
  /\ target_org_slug = None

====
